---- MODULE Spec2Model ----
(***************************************************************************)
(* Model of the retrieval core of src/src/lib/ragService.ts (class         *)
(* RAGService): query preprocessing, the three-strategy retrieval cascade  *)
(* with its suspension points at every backend call, relevance ranking and *)
(* de-duplication, the context formatter and the retrieval analytics.      *)
(* Strings are sequences of one-character strings, so that lower-casing,   *)
(* tokenising, substring tests and lengths are computed rather than        *)
(* assumed.                                                                *)
(***************************************************************************)
EXTENDS Integers, Sequences, FiniteSets, TLC

----------------------------------------------------------------------------
(* Bounds of the model *)

\* Largest number of rows the backend puts in one response.
MaxResp == 3

\* Number of retrieval calls that may be in flight at once in SpecConc.
MaxClients == 2

----------------------------------------------------------------------------
(* Characters and strings *)

UpperChars ==
    <<"A","B","C","D","E","F","G","H","I","J","K","L","M",
      "N","O","P","Q","R","S","T","U","V","W","X","Y","Z">>

LowerChars ==
    <<"a","b","c","d","e","f","g","h","i","j","k","l","m",
      "n","o","p","q","r","s","t","u","v","w","x","y","z">>

DigitChars == {"0","1","2","3","4","5","6","7","8","9"}

\* The characters matched by \s that occur in the modelled inputs.
SpaceChars == {" ", "\t", "\n"}

Range(s) == { s[i] : i \in 1..Len(s) }

Min(a, b) == IF a < b THEN a ELSE b

Max(a, b) == IF a > b THEN a ELSE b

\* String.prototype.toLowerCase on one character.
LowerOf == [ ch \in Range(UpperChars) |-> LowerChars[CHOOSE i \in 1..26 : UpperChars[i] = ch] ]

LowerChar(ch) == IF ch \in DOMAIN LowerOf THEN LowerOf[ch] ELSE ch

toLowerCase(s) == [i \in 1..Len(s) |-> LowerChar(s[i])]

IsSpace(ch) == ch \in SpaceChars

\* The class \w : letters, digits and the underscore.
WordChars == Range(UpperChars) \cup Range(LowerChars) \cup DigitChars \cup { "_" }

IsWordChar(ch) == ch \in WordChars

\* String.prototype.trim : what lies between the first and the last character
\* that is not whitespace.
trim(s) ==
    LET solid == { i \in 1..Len(s) : ~IsSpace(s[i]) }
    IN  IF solid = {} THEN <<>>
        ELSE SubSeq(s, CHOOSE i \in solid : \A j \in solid : i <= j,
                       CHOOSE i \in solid : \A j \in solid : j <= i)

\* .replace(/[^\w\s]/g, ' ')
replaceNonWord(s) ==
    [i \in 1..Len(s) |-> IF IsWordChar(s[i]) \/ IsSpace(s[i]) THEN s[i] ELSE " "]

\* .split(/\s+/) : the pieces between maximal whitespace runs; a run at either
\* end of the string leaves an empty piece there, and "" splits into <<"">>.
splitWhitespace(s) ==
    LET n       == Len(s)
        starts  == { i \in 1..n : ~IsSpace(s[i]) /\ (i = 1 \/ IsSpace(s[i - 1])) }
        endOf(i) == CHOOSE j \in i..n :
                      /\ \A k \in i..j : ~IsSpace(s[k])
                      /\ (j = n \/ IsSpace(s[j + 1]))
        nth(k)  == CHOOSE i \in starts : Cardinality({ j \in starts : j <= i }) = k
        pieces  == [ k \in 1..Cardinality(starts) |-> SubSeq(s, nth(k), endOf(nth(k))) ]
        leading  == IF n = 0 \/ IsSpace(s[1]) THEN << <<>> >> ELSE <<>>
        trailing == IF n > 0 /\ IsSpace(s[n]) THEN << <<>> >> ELSE <<>>
    IN  leading \o pieces \o trailing

\* Array.prototype.filter, for a predicate given as the set of elements it keeps.
selectSeq(s, kept) ==
    LET F[i \in 0..Len(s)] ==
          IF i = 0 THEN <<>>
          ELSE IF s[i] \in kept THEN Append(F[i - 1], s[i]) ELSE F[i - 1]
    IN  F[Len(s)]

\* Array.prototype.slice(0, n) : a negative n counts from the end.
sliceTo(s, n) ==
    IF n >= 0 THEN SubSeq(s, 1, Min(n, Len(s)))
    ELSE SubSeq(s, 1, Max(Len(s) + n, 0))

\* String.prototype.includes
includes(text, part) ==
    \E i \in 0..(Len(text) - Len(part)) : SubSeq(text, i + 1, i + Len(part)) = part

\* Array.prototype.join
join(parts, sep) ==
    LET F[i \in 0..Len(parts)] ==
          IF i = 0 THEN <<>>
          ELSE IF i = 1 THEN parts[1]
          ELSE F[i - 1] \o sep \o parts[i]
    IN  F[Len(parts)]

----------------------------------------------------------------------------
(* Configuration *)

DEFAULT_CONFIG ==
    [ maxResults           |-> 10,
      minTermLength        |-> 2,
      maxTerms             |-> 10,
      enableSemanticSearch |-> FALSE,
      contextWindowSize    |-> 4000 ]

\* { ...DEFAULT_CONFIG, ...config } : the fields given override the defaults.
mergeConfig(defaults, given) ==
    [f \in DOMAIN defaults |-> IF f \in DOMAIN given THEN given[f] ELSE defaults[f]]

----------------------------------------------------------------------------
(* Query preprocessing *)

stopWords ==
  { <<"t","h","e">>, <<"a">>, <<"a","n">>, <<"a","n","d">>, <<"o","r">>, <<"b","u","t">>,
    <<"i","n">>, <<"o","n">>, <<"a","t">>, <<"t","o">>, <<"f","o","r">>, <<"o","f">>,
    <<"w","i","t","h">>, <<"b","y">>, <<"i","s">>, <<"a","r","e">>, <<"w","a","s">>,
    <<"w","e","r","e">>, <<"b","e">>, <<"b","e","e","n">>, <<"b","e","i","n","g">>,
    <<"h","a","v","e">>, <<"h","a","s">>, <<"h","a","d">>, <<"d","o">>, <<"d","o","e","s">>,
    <<"d","i","d">>, <<"w","i","l","l">>, <<"w","o","u","l","d">>, <<"c","o","u","l","d">>,
    <<"s","h","o","u","l","d">>, <<"m","a","y">>, <<"m","i","g","h","t">>, <<"c","a","n">>,
    <<"w","h","a","t">>, <<"w","h","e","r","e">>, <<"w","h","e","n">>, <<"w","h","y">>,
    <<"h","o","w">> }

isStopWord(word) == word \in stopWords

\* Search terms cut to maxTerms tokens before the filters run.
extractSearchTermsSliceFirst(normalizedQuery, cfg) ==
    LET tokens     == sliceTo(splitWhitespace(replaceNonWord(normalizedQuery)), cfg.maxTerms)
        longEnough == selectSeq(tokens, { t \in Range(tokens) : Len(t) >= cfg.minTermLength })
    IN  selectSeq(longEnough, { t \in Range(longEnough) : ~isStopWord(t) })

\* The search terms of preprocessQuery.
extractSearchTerms(normalizedQuery, cfg) ==
    LET tokens   == splitWhitespace(replaceNonWord(normalizedQuery))
        longEnough == selectSeq(tokens, { t \in Range(tokens) : Len(t) >= cfg.minTermLength })
        notStop    == selectSeq(longEnough, { t \in Range(longEnough) : ~isStopWord(t) })
    IN  sliceTo(notStop, cfg.maxTerms)

\* The intent rule chain of preprocessQuery.
detectIntent(normalizedQuery, terms) ==
    IF \/ includes(normalizedQuery, <<"c","o","m","p","a","r","e">>)
       \/ includes(normalizedQuery, <<"v","s">>)
       \/ includes(normalizedQuery, <<"v","e","r","s","u","s">>)
      THEN "comparison"
    ELSE IF \/ includes(normalizedQuery, <<"p","r","i","c","e">>)
            \/ includes(normalizedQuery, <<"c","o","s","t">>)
            \/ includes(normalizedQuery, <<"$">>)
      THEN "pricing"
    ELSE IF \/ includes(normalizedQuery, <<"a","v","a","i","l","a","b","l","e">>)
            \/ includes(normalizedQuery, <<"s","t","o","c","k">>)
            \/ includes(normalizedQuery, <<"i","n"," ","s","t","o","c","k">>)
      THEN "availability"
    ELSE IF Len(terms) > 0
      THEN "product_search"
    ELSE "general"

preprocessQuery(text, cfg) ==
    LET normalizedQuery == trim(toLowerCase(text))
        terms           == extractSearchTerms(normalizedQuery, cfg)
    IN  [ searchTerms |-> terms,
          intent      |-> detectIntent(normalizedQuery, terms),
          entities    |-> selectSeq(terms, { t \in Range(terms) : Len(t) > 3 }) ]

----------------------------------------------------------------------------
(* Products and the search backend *)

\* Rows of the products table, with the five selected columns.  Two rows share
\* a name and differ in the other columns.
prodValve ==
    [ name |-> <<"V","a">>, description |-> <<"g","a">>, category |-> <<"k">>,
      price |-> 5, in_stock |-> TRUE ]

prodPump ==
    [ name |-> <<"P","u">>, description |-> <<>>, category |-> <<"k">>,
      price |-> 7, in_stock |-> FALSE ]

prodPumpAlt ==
    [ name |-> <<"P","u">>, description |-> <<"z">>, category |-> <<"k">>,
      price |-> 9, in_stock |-> TRUE ]

Catalog == { prodValve, prodPump, prodPumpAlt }

ProductFields == { "name", "description", "category", "price", "in_stock" }

\* The row lists a backend holding `catalog` may answer with: distinct rows in
\* any order, whatever the search expression and the limit were.
Rows(catalog) ==
    { s \in UNION { [1..n -> catalog] : n \in 0..MaxResp } :
        \A i, j \in 1..Len(s) : i # j => s[i] # s[j] }

\* What awaiting a backend query gives: { data, error } with rows, { data, error }
\* with an error value, or an exception.
OutcomesOver(catalog) ==
    { [kind |-> "ok", data |-> s] : s \in Rows(catalog) }
      \cup { [kind |-> "error", data |-> <<>>], [kind |-> "throw", data |-> <<>>] }

Outcomes == OutcomesOver(Catalog)

Failed(o) == o.kind \in { "error", "throw" }

\* Queries asked of the service.
QueryEmpty == <<>>

\* "The a"
QueryStopWords == <<"T","h","e"," ","a">>

\* " Pu!"
QueryOne == <<" ","P","u","!">>

\* "va ga"
QueryTwo == <<"v","a"," ","g","a">>

\* "pu pu-VA, ga"
QueryRepeated == <<"p","u"," ","p","u","-","V","A",","," ","g","a">>

Queries == { QueryEmpty, QueryStopWords, QueryOne, QueryTwo, QueryRepeated }

\* Constructor arguments (Partial<RAGConfig>).
Options ==
    { [ maxResults |-> 10 ],
      [ maxResults |-> 1 ],
      [ maxResults |-> 0 ],
      [ maxTerms |-> 2 ],
      [ minTermLength |-> 0 ] }

----------------------------------------------------------------------------
(* The three strategies *)

\* textSearch('fts', `"${query}"`).limit(maxResults)
exactPhraseQuery(text, cfg) ==
    [ strategy |-> "exact_phrase", expression |-> <<"\"">> \o text \o <<"\"">>,
      limit |-> cfg.maxResults ]

\* textSearch('fts', searchTerms.join(' | ')).limit(maxResults * 2)
multiTermQuery(terms, cfg) ==
    [ strategy |-> "multi_term", expression |-> join(terms, <<" ","|"," ">>),
      limit |-> cfg.maxResults * 2 ]

\* textSearch('fts', term).limit(5)
singleTermQuery(term) ==
    [ strategy |-> "single_term_fallback", expression |-> term, limit |-> 5 ]

\* exactPhraseSearch without its try/catch: the exception leaves the method.
exactPhraseSearchUncaught(o) ==
    IF o.kind = "throw"
      THEN [ products |-> <<>>, log |-> <<>>, threw |-> TRUE ]
    ELSE IF o.kind = "error"
      THEN [ products |-> <<>>, log |-> << "Exact phrase search error:" >>, threw |-> FALSE ]
    ELSE [ products |-> o.data, log |-> <<>>, threw |-> FALSE ]

\* exactPhraseSearch, from the point where the awaited backend query settles.
exactPhraseSearch(o) ==
    IF o.kind = "throw"
      THEN [ products |-> <<>>, log |-> << "Exact phrase search exception:" >>, threw |-> FALSE ]
    ELSE IF o.kind = "error"
      THEN [ products |-> <<>>, log |-> << "Exact phrase search error:" >>, threw |-> FALSE ]
    ELSE [ products |-> o.data, log |-> <<>>, threw |-> FALSE ]

\* `${product.name} ${product.description} ${product.category}`.toLowerCase()
productText(product) ==
    toLowerCase(product.name \o <<" ">> \o product.description \o <<" ">> \o product.category)

\* searchTerms.filter(term => productText.includes(term)).length
matchCount(product, terms) ==
    Len(selectSeq(terms,
                  { t \in Range(terms) : includes(productText(product), t) }))

\* { ...product, relevanceScore: matchCount }
scoreProducts(data, terms) ==
    [ i \in 1..Len(data) |->
        [ f \in (DOMAIN data[i]) \cup { "relevanceScore" } |->
            IF f = "relevanceScore" THEN matchCount(data[i], terms) ELSE data[i][f] ] ]

\* A sort that puts higher scores first but reverses the order of ties.
sortByRelevanceUnstable(scored) ==
    LET Ins(sorted, x) ==
          LET before == { k \in 1..Len(sorted) : sorted[k].relevanceScore > x.relevanceScore }
              n      == Cardinality(before)
          IN  SubSeq(sorted, 1, n) \o <<x>> \o SubSeq(sorted, n + 1, Len(sorted))
        F[i \in 0..Len(scored)] == IF i = 0 THEN <<>> ELSE Ins(F[i - 1], scored[i])
    IN  F[Len(scored)]

\* .sort((a, b) => b.relevanceScore - a.relevanceScore) : Array.prototype.sort is
\* stable, so each element goes after the elements whose score is not lower.
sortByRelevance(scored) ==
    LET Ins(sorted, x) ==
          LET before == { k \in 1..Len(sorted) : sorted[k].relevanceScore >= x.relevanceScore }
              n      == Cardinality(before)
          IN  SubSeq(sorted, 1, n) \o <<x>> \o SubSeq(sorted, n + 1, Len(sorted))
        F[i \in 0..Len(scored)] == IF i = 0 THEN <<>> ELSE Ins(F[i - 1], scored[i])
    IN  F[Len(scored)]

\* .map(({ relevanceScore, ...product }) => product)
stripScores(scored) ==
    [ i \in 1..Len(scored) |->
        [ f \in (DOMAIN scored[i]) \ { "relevanceScore" } |-> scored[i][f] ] ]

\* multiTermSearch, from the point where the awaited backend query settles.
multiTermSearch(terms, o) ==
    IF o.kind = "throw"
      THEN [ products |-> <<>>, scored |-> <<>>,
             log |-> << "Multi-term search exception:" >>, threw |-> FALSE ]
    ELSE IF o.kind = "error"
      THEN [ products |-> <<>>, scored |-> <<>>,
             log |-> << "Multi-term search error:" >>, threw |-> FALSE ]
    ELSE LET scoredRows == scoreProducts(o.data, terms)
         IN  [ products |-> stripScores(sortByRelevance(scoredRows)),
               scored   |-> scoredRows,
               log      |-> <<>>,
               threw    |-> FALSE ]

\* if (!error && data) allResults.push(...data)
pushResults(rows, o) ==
    IF o.kind = "ok" THEN rows \o o.data ELSE rows

\* De-duplication that keeps the last row of each name.
uniqueProductsKeepLast(rows) ==
    LET lastIndex(i) ==
          CHOOSE k \in 1..Len(rows) :
            /\ rows[k].name = rows[i].name
            /\ \A j \in 1..Len(rows) : rows[j].name = rows[i].name => j <= k
        kept == { i \in 1..Len(rows) : i = lastIndex(i) }
        F[i \in 0..Len(rows)] ==
          IF i = 0 THEN <<>>
          ELSE IF i \in kept THEN Append(F[i - 1], rows[i]) ELSE F[i - 1]
    IN  F[Len(rows)]

\* allResults.filter((product, index, self) =>
\*   index === self.findIndex(p => p.name === product.name))
uniqueProducts(rows) ==
    LET findIndex(i) ==
          CHOOSE k \in 1..Len(rows) :
            /\ rows[k].name = rows[i].name
            /\ \A j \in 1..(k - 1) : rows[j].name # rows[i].name
        kept == { i \in 1..Len(rows) : i = findIndex(i) }
        F[i \in 0..Len(rows)] ==
          IF i = 0 THEN <<>>
          ELSE IF i \in kept THEN Append(F[i - 1], rows[i]) ELSE F[i - 1]
    IN  F[Len(rows)]

\* A fallback over the first four terms.
fallbackTermsFour(terms) == sliceTo(terms, 4)

\* searchTerms.slice(0, 3)
fallbackTerms(terms) == sliceTo(terms, 3)

\* singleTermFallback as one function of the outcomes of its per-term queries,
\* taken in order: an exception ends the loop and empties the list.
singleTermFallback(terms, outs) ==
    LET n == Min(Len(fallbackTerms(terms)), Len(outs))
        F[i \in 0..n] == IF i = 0 THEN <<>> ELSE pushResults(F[i - 1], outs[i])
    IN  IF \E i \in 1..n : outs[i].kind = "throw" THEN <<>> ELSE uniqueProducts(F[n])

----------------------------------------------------------------------------
(* The retrieval cascade *)

VARIABLES
    config,         \* this.config
    pc,             \* where each call of retrieveRelevantProducts stands
    query,          \* the parameter `query` of each call
    searchTerms,    \* the local `searchTerms` of each call
    allResults,     \* the local `allResults` of singleTermFallback
    termIndex,      \* the position of the for-of loop of singleTermFallback
    scoredProducts, \* the local `scoredProducts` of multiTermSearch
    result,         \* what the promise of each call resolved to
    issued,         \* the backend queries each call has issued, in order
    received,       \* what each of those queries settled to, in order
    strategyOut,    \* what each strategy method returned, in order
    consoleErrors,  \* the console.error lines of each call
    analytics,      \* what getRetrievalAnalytics returned for each call's result
    preprocessCall, \* a call of preprocessQuery on its own: argument and return value
    formatCall      \* a call of formatProductsForContext: argument, locals, return value

vars ==
    << config, pc, query, searchTerms, allResults, termIndex, scoredProducts,
       result, issued, received, strategyOut, consoleErrors,
       analytics, preprocessCall, formatCall >>

Clients == 1..MaxClients

\* A service shared by every caller would keep one activation for all calls.
FrameShared(c) == 1

\* Each call of the async method has its own activation: parameters and locals.
Frame(c) == c

noResult == [ products |-> <<>>, searchTerms |-> <<>>, retrievalStrategy |-> "pending" ]

\* No analytics computed yet.
noAnalytics == [ state |-> "none" ]

\* A function of the service that has not been called.
noCall == [ state |-> "idle" ]

\* The test that skips the short-circuit for a query without terms.
hasNoTermsNever(terms) == Len(terms) < 0

\* searchTerms.length === 0
hasNoTerms(terms) == Len(terms) = 0

noTermsResult == [ products |-> <<>>, searchTerms |-> <<>>, retrievalStrategy |-> "no_terms" ]

\* A test that asks for more than one record.
foundSeveral(products) == Len(products) > 1

\* products.length > 0
found(products) == Len(products) > 0

\* The final list left as the strategy returned it.
finalProductsUncut(products, cfg) == products

\* The final list cut one record short of maxResults.
finalProductsLessOne(products, cfg) == sliceTo(products, Max(cfg.maxResults - 1, 0))

\* products.slice(0, this.config.maxResults)
finalProducts(products, cfg) == sliceTo(products, cfg.maxResults)

\* A result that reports the terms the last strategy used.
makeResultUsedTerms(products, terms, strategy, cfg) ==
    [ products          |-> finalProducts(products, cfg),
      searchTerms       |-> IF strategy = "single_term_fallback"
                            THEN fallbackTerms(terms) ELSE terms,
      retrievalStrategy |-> strategy ]

\* The object literal returned after a strategy.
makeResult(products, terms, strategy, cfg) ==
    [ products          |-> finalProducts(products, cfg),
      searchTerms       |-> terms,
      retrievalStrategy |-> strategy ]

\* retrieveRelevantProducts run on its own, as one function of the search terms
\* of its query and of the outcomes of its backend queries, taken in order.
retrieveAlone(terms, cfg, outs) ==
    IF hasNoTerms(terms) THEN noTermsResult
    ELSE IF found(exactPhraseSearch(outs[1]).products)
      THEN makeResult(exactPhraseSearch(outs[1]).products, terms, "exact_phrase", cfg)
    ELSE IF found(multiTermSearch(terms, outs[2]).products)
      THEN makeResult(multiTermSearch(terms, outs[2]).products, terms, "multi_term", cfg)
    ELSE makeResult(singleTermFallback(terms, SubSeq(outs, 3, Len(outs))), terms,
                    "single_term_fallback", cfg)

\* new RAGService(options), before any call.
InitWith(options) ==
    /\ config = mergeConfig(DEFAULT_CONFIG, options)
    /\ pc = [c \in Clients |-> "idle"]
    /\ query = [c \in Clients |-> <<>>]
    /\ searchTerms = [c \in Clients |-> <<>>]
    /\ allResults = [c \in Clients |-> <<>>]
    /\ termIndex = [c \in Clients |-> 0]
    /\ scoredProducts = [c \in Clients |-> <<>>]
    /\ result = [c \in Clients |-> noResult]
    /\ issued = [c \in Clients |-> <<>>]
    /\ received = [c \in Clients |-> <<>>]
    /\ strategyOut = [c \in Clients |-> <<>>]
    /\ consoleErrors = [c \in Clients |-> <<>>]
    /\ analytics = [c \in Clients |-> noAnalytics]
    /\ preprocessCall = noCall
    /\ formatCall = noCall

Init == \E o \in Options : InitWith(o)

\* The promise of call c resolves to r.
Resolve(c, r) ==
    /\ result' = [result EXCEPT ![c] = r]
    /\ pc' = [pc EXCEPT ![c] = "done"]

\* The promise of call c is rejected.
Reject(c) ==
    /\ result' = result
    /\ pc' = [pc EXCEPT ![c] = "rejected"]

\* Call c issues backend query q and suspends at `where`.
Await(c, q, where) ==
    /\ issued' = [issued EXCEPT ![c] = Append(@, q)]
    /\ pc' = [pc EXCEPT ![c] = where]
    /\ result' = result

\* retrieveRelevantProducts(q) up to its first await.
RetrieveStart(c, q) ==
    /\ pc[c] = "idle"
    /\ LET terms == preprocessQuery(q, config).searchTerms
       IN  /\ query' = [query EXCEPT ![c] = q]
           /\ searchTerms' = [searchTerms EXCEPT ![Frame(c)] = terms]
           /\ allResults' = [allResults EXCEPT ![Frame(c)] = <<>>]
           /\ termIndex' = [termIndex EXCEPT ![Frame(c)] = 0]
           /\ scoredProducts' = [scoredProducts EXCEPT ![Frame(c)] = <<>>]
           /\ received' = [received EXCEPT ![c] = <<>>]
           /\ strategyOut' = [strategyOut EXCEPT ![c] = <<>>]
           /\ consoleErrors' = [consoleErrors EXCEPT ![c] = <<>>]
           /\ IF hasNoTerms(terms)
                THEN /\ Resolve(c, noTermsResult)
                     /\ issued' = [issued EXCEPT ![c] = <<>>]
                ELSE /\ issued' = [issued EXCEPT ![c] = << exactPhraseQuery(q, config) >>]
                     /\ pc' = [pc EXCEPT ![c] = "awaitExactPhrase"]
                     /\ result' = [result EXCEPT ![c] = noResult]
    /\ UNCHANGED << config, analytics, preprocessCall, formatCall >>

\* The exact-phrase query settles; the cascade goes on to its second await.
ExactPhraseReturn(c, o) ==
    /\ pc[c] = "awaitExactPhrase"
    /\ LET r == exactPhraseSearch(o)
       IN  /\ received' = [received EXCEPT ![c] = Append(@, o)]
           /\ consoleErrors' = [consoleErrors EXCEPT ![c] = @ \o r.log]
           /\ IF r.threw
                THEN /\ Reject(c)
                     /\ UNCHANGED << issued, strategyOut >>
                ELSE /\ strategyOut' = [strategyOut EXCEPT ![c] =
                            Append(@, [strategy |-> "exact_phrase", products |-> r.products])]
                     /\ IF found(r.products)
                          THEN /\ Resolve(c, makeResult(r.products, searchTerms[Frame(c)],
                                                        "exact_phrase", config))
                               /\ UNCHANGED issued
                          ELSE Await(c, multiTermQuery(searchTerms[Frame(c)], config),
                                     "awaitMultiTerm")
    /\ UNCHANGED << config, query, searchTerms, allResults, termIndex, scoredProducts,
                    analytics, preprocessCall, formatCall >>

\* singleTermFallback returns `products` to the cascade, which returns its result.
FallbackDone(c, products) ==
    /\ strategyOut' = [strategyOut EXCEPT ![c] =
          Append(@, [strategy |-> "single_term_fallback", products |-> products])]
    /\ Resolve(c, makeResult(products, searchTerms[Frame(c)], "single_term_fallback", config))

\* The multi-term query settles; the cascade enters singleTermFallback.
MultiTermReturn(c, o) ==
    /\ pc[c] = "awaitMultiTerm"
    /\ LET r     == multiTermSearch(searchTerms[Frame(c)], o)
           terms == fallbackTerms(searchTerms[Frame(c)])
           out   == Append(strategyOut[c], [strategy |-> "multi_term", products |-> r.products])
       IN  /\ received' = [received EXCEPT ![c] = Append(@, o)]
           /\ consoleErrors' = [consoleErrors EXCEPT ![c] = @ \o r.log]
           /\ scoredProducts' = [scoredProducts EXCEPT ![Frame(c)] = r.scored]
           /\ IF found(r.products)
                THEN /\ Resolve(c, makeResult(r.products, searchTerms[Frame(c)],
                                              "multi_term", config))
                     /\ strategyOut' = [strategyOut EXCEPT ![c] = out]
                     /\ UNCHANGED << issued, allResults, termIndex >>
                ELSE /\ allResults' = [allResults EXCEPT ![Frame(c)] = <<>>]
                     /\ IF terms = <<>>
                          THEN /\ strategyOut' = [strategyOut EXCEPT ![c] =
                                     Append(out, [strategy |-> "single_term_fallback",
                                                  products |-> <<>>])]
                               /\ Resolve(c, makeResult(<<>>, searchTerms[Frame(c)],
                                                        "single_term_fallback", config))
                               /\ UNCHANGED << issued, termIndex >>
                          ELSE /\ strategyOut' = [strategyOut EXCEPT ![c] = out]
                               /\ termIndex' = [termIndex EXCEPT ![Frame(c)] = 1]
                               /\ Await(c, singleTermQuery(terms[1]), "awaitSingleTerm")
    /\ UNCHANGED << config, query, searchTerms, analytics, preprocessCall, formatCall >>

\* One per-term query of singleTermFallback settles.
SingleTermReturn(c, o) ==
    /\ pc[c] = "awaitSingleTerm"
    /\ LET terms == fallbackTerms(searchTerms[Frame(c)])
           all   == pushResults(allResults[Frame(c)], o)
           i     == termIndex[Frame(c)]
       IN  /\ received' = [received EXCEPT ![c] = Append(@, o)]
           /\ IF o.kind = "throw"
                THEN /\ consoleErrors' = [consoleErrors EXCEPT ![c] =
                            Append(@, "Single term fallback exception:")]
                     /\ FallbackDone(c, <<>>)
                     /\ UNCHANGED << issued, allResults, termIndex >>
                ELSE /\ consoleErrors' = consoleErrors
                     /\ allResults' = [allResults EXCEPT ![Frame(c)] = all]
                     /\ IF i < Len(terms)
                          THEN /\ termIndex' = [termIndex EXCEPT ![Frame(c)] = i + 1]
                               /\ Await(c, singleTermQuery(terms[i + 1]), "awaitSingleTerm")
                               /\ UNCHANGED strategyOut
                          ELSE /\ FallbackDone(c, uniqueProducts(all))
                               /\ UNCHANGED << issued, termIndex >>
    /\ UNCHANGED << config, query, searchTerms, scoredProducts,
                    analytics, preprocessCall, formatCall >>

\* Analytics that take the number of search terms for the number of records.
getRetrievalAnalyticsByTerms(retrieved) ==
    [ productCount    |-> Len(retrieved.searchTerms),
      strategy        |-> retrieved.retrievalStrategy,
      searchTermCount |-> Len(retrieved.searchTerms),
      hasResults      |-> Len(retrieved.searchTerms) > 0 ]

getRetrievalAnalytics(retrieved) ==
    [ productCount    |-> Len(retrieved.products),
      strategy        |-> retrieved.retrievalStrategy,
      searchTermCount |-> Len(retrieved.searchTerms),
      hasResults      |-> Len(retrieved.products) > 0 ]

\* The caller of call c, once the call has resolved, asks for its analytics.
GetAnalytics(c) ==
    /\ pc[c] = "done"
    /\ analytics[c] = noAnalytics
    /\ analytics' = [analytics EXCEPT ![c] = getRetrievalAnalytics(result[c])]
    /\ UNCHANGED << config, pc, query, searchTerms, allResults, termIndex, scoredProducts,
                    result, issued, received, strategyOut, consoleErrors,
                    preprocessCall, formatCall >>

\* One caller, every query, a backend over the whole table.
Next ==
    \/ \E q \in Queries : RetrieveStart(1, q)
    \/ \E o \in Outcomes : ExactPhraseReturn(1, o)
    \/ \E o \in Outcomes : MultiTermReturn(1, o)
    \/ \E o \in Outcomes : SingleTermReturn(1, o)
    \/ GetAnalytics(1)

Spec == Init /\ [][Next]_vars

\* The exported singleton, new RAGService(), used by several requests at once.
ConcQueries == { QueryOne, QueryTwo }

\* For the concurrent callers the backend finds one row or fails.
ConcOutcomes ==
    { [kind |-> "ok", data |-> << prodPump >>],
      [kind |-> "error", data |-> <<>>],
      [kind |-> "throw", data |-> <<>>] }

InitConc == InitWith([ maxResults |-> 10 ])

\* Any caller may take the next step: calls interleave at their await points.
NextConc ==
    \/ \E c \in Clients, q \in ConcQueries : RetrieveStart(c, q)
    \/ \E c \in Clients, o \in ConcOutcomes : ExactPhraseReturn(c, o)
    \/ \E c \in Clients, o \in ConcOutcomes : MultiTermReturn(c, o)
    \/ \E c \in Clients, o \in ConcOutcomes : SingleTermReturn(c, o)

SpecConc == InitConc /\ [][NextConc]_vars

----------------------------------------------------------------------------
(* Context formatting *)

\* Largest number of records handed to formatProductsForContext.
MaxProducts == 3

Digits == <<"0","1","2","3","4","5","6","7","8","9">>

\* The string a natural number turns into inside a template literal.
numberToString(n) ==
    LET width == CHOOSE k \in 1..(n + 1) : n < 10^k /\ (k = 1 \/ n >= 10^(k - 1))
    IN  [ i \in 1..width |-> Digits[((n \div 10^(width - i)) % 10) + 1] ]

\* '\n**Available Product Information:**\n'
contextHeader ==
    <<"\n","*","*","A","v","a","i","l","a","b","l","e"," ","P","r","o","d","u","c","t",
      " ","I","n","f","o","r","m","a","t","i","o","n",":","*","*","\n">>

labelDescription ==
    <<" "," "," ","-"," ","D","e","s","c","r","i","p","t","i","o","n",":"," ">>

labelCategory ==
    <<" "," "," ","-"," ","C","a","t","e","g","o","r","y",":"," ">>

labelPrice ==
    <<" "," "," ","-"," ","P","r","i","c","e",":"," ","$">>

labelInStock ==
    <<" "," "," ","-"," ","I","n"," ","S","t","o","c","k",":"," ">>

\* The template literal `productText` for the record at index i, counted from 0.
entryText(i, product) ==
    numberToString(i + 1) \o <<".", " ", "*", "*">> \o product.name \o <<"*", "*", "\n">>
      \o labelDescription \o product.description \o <<"\n">>
      \o labelCategory \o product.category \o <<"\n">>
      \o labelPrice \o numberToString(product.price) \o <<"\n">>
      \o labelInStock \o (IF product.in_stock THEN <<"Y","e","s">> ELSE <<"N","o">>)
      \o <<"\n", "\n">>

trailerOpen ==
    <<".",".","."," ","(">>

trailerClose ==
    <<" ","m","o","r","e"," ","p","r","o","d","u","c","t","s"," ","a","v","a","i","l",
      "a","b","l","e",")","\n">>

\* A trailer that leaves the record at index i out of its count.
omissionTrailerLessOne(n, i) ==
    trailerOpen \o numberToString(n - i - 1) \o trailerClose

\* `... (${products.length - i} more products available)\n`
omissionTrailer(n, i) ==
    trailerOpen \o numberToString(n - i) \o trailerClose

\* '---\n'
contextClosing == <<"-", "-", "-", "\n">>

\* One turn of the for loop, for the record at index i, on the locals `before`.
formatStep(before, products, i, maxLength) ==
    LET text == entryText(i, products[i + 1])
    IN  IF before.broke THEN before
        ELSE IF before.currentLength + Len(text) > maxLength
          THEN [ context       |-> before.context \o omissionTrailer(Len(products), i),
                 currentLength |-> before.currentLength,
                 rendered      |-> before.rendered,
                 broke         |-> TRUE ]
          ELSE [ context       |-> before.context \o text,
                 currentLength |-> before.currentLength + Len(text),
                 rendered      |-> before.rendered + 1,
                 broke         |-> FALSE ]

\* The locals of formatProductsForContext when its loop is over.
formatLoop(products, cfg) ==
    LET F[k \in 0..Len(products)] ==
          IF k = 0
            THEN [ context       |-> contextHeader,
                   currentLength |-> Len(contextHeader),
                   rendered      |-> 0,
                   broke         |-> FALSE ]
            ELSE formatStep(F[k - 1], products, k - 1, cfg.contextWindowSize)
    IN  F[Len(products)]

formatProductsForContext(products, cfg) ==
    IF Len(products) = 0 THEN <<>>
    ELSE formatLoop(products, cfg).context \o contextClosing

\* The record lists formatted: any rows of the table, repeats included.
ProductLists == UNION { [1..n -> Catalog] : n \in 0..MaxProducts }

\* The values of contextWindowSize the service is constructed with.
WindowSizes == { 0, 40, 119, 120, 199, 200, 283, 4000 }

InitFormat == \E w \in WindowSizes : InitWith([ contextWindowSize |-> w ])

\* formatProductsForContext(ps), from call to return.
FormatProducts(ps) ==
    /\ formatCall.state = "idle"
    /\ formatCall' =
         [ state    |-> "returned",
           products |-> ps,
           rendered |-> IF Len(ps) = 0 THEN 0 ELSE formatLoop(ps, config).rendered,
           context  |-> formatProductsForContext(ps, config) ]
    /\ UNCHANGED << config, pc, query, searchTerms, allResults, termIndex, scoredProducts,
                    result, issued, received, strategyOut, consoleErrors,
                    analytics, preprocessCall >>

NextFormat == \E ps \in ProductLists : FormatProducts(ps)

SpecFormat == InitFormat /\ [][NextFormat]_vars

----------------------------------------------------------------------------
(* Query preprocessing called on its own *)

QueryCompare ==
    <<"c","o","m","p","a","r","e"," ","p","r","i","c","e"," ","o","f"," ","X"," ","a","n","d"," ","Y">>

QueryPriceStock ==
    <<"P","r","i","c","e"," ","i","n"," ","s","t","o","c","k">>

QueryCost ==
    <<"c","o","s","t"," ","$","5">>

QueryDollar ==
    <<"$">>

QueryAvailable ==
    <<"i","s"," ","i","t"," ","A","v","a","i","l","a","b","l","e">>

QueryInStock ==
    <<"I","n"," ","S","t","o","c","k","?">>

QueryVersus ==
    <<"p","u"," ","v","e","r","s","u","s"," ","v","a">>

QueryDevs ==
    <<"d","e","v","s">>

QueryUnderscore ==
    <<"a","_","b"," ","C","3">>

QueryBlank ==
    <<" ","\t"," ">>

QueryLeadingStops ==
    <<"I","s"," ","t","h","e"," ","p","u"," ","p","u","-","V","A",","," ","g","a">>

\* The queries preprocessed: those of the cascade and queries that name an
\* intent, carry an underscore, or begin with tokens the filters discard.
PreQueries ==
    Queries \cup { QueryCompare, QueryPriceStock, QueryCost, QueryDollar, QueryAvailable, QueryInStock,
                   QueryVersus, QueryDevs, QueryUnderscore, QueryBlank, QueryLeadingStops }

\* The term limits the service is constructed with.
PreOptions ==
    { [ minTermLength |-> a, maxTerms |-> b ] : a \in { 0, 1, 2, 3 }, b \in { 0, 1, 2, 10 } }

InitPre == \E o \in PreOptions : InitWith(o)

\* preprocessQuery(q), from call to return.
PreprocessQuery(q) ==
    /\ preprocessCall.state = "idle"
    /\ preprocessCall' =
         [ state |-> "returned", query |-> q, out |-> preprocessQuery(q, config) ]
    /\ UNCHANGED << config, pc, query, searchTerms, allResults, termIndex, scoredProducts,
                    result, issued, received, strategyOut, consoleErrors,
                    analytics, formatCall >>

NextPre == \E q \in PreQueries : PreprocessQuery(q)

SpecPre == InitPre /\ [][NextPre]_vars

----------------------------------------------------------------------------
(* Properties of the cascade *)

\* preprocessQuery tabulated over the queries and configurations of the model.
Preprocessed ==
    { [ query  |-> q,
        config |-> mergeConfig(DEFAULT_CONFIG, o),
        terms  |-> preprocessQuery(q, mergeConfig(DEFAULT_CONFIG, o)).searchTerms ] :
      q \in Queries, o \in Options }

\* The search terms the preprocessor gives for the query of call c.
TermsOf(c) ==
    (CHOOSE r \in Preprocessed : r.query = query[c] /\ r.config = config).terms

Started(c) == pc[c] # "idle"

StrategyOrder == << "exact_phrase", "multi_term", "single_term_fallback" >>

StrategyRank(tag) == CHOOSE k \in 1..3 : StrategyOrder[k] = tag

\* The outcomes of the backend queries that call c issued for strategy `tag`.
OutcomesFor(c, tag) ==
    { received[c][i] : i \in { j \in 1..Len(received[c]) : issued[c][j].strategy = tag } }

\* C1: a query whose preprocessing yields no search term resolves at once to
\* strategy 'no_terms' with no record and no search term, and no backend query
\* is ever issued for it.
C1_NoTermsShortCircuit ==
    \A c \in Clients :
      (Started(c) /\ TermsOf(c) = <<>>) =>
        /\ pc[c] = "done"
        /\ result[c] = [ products |-> <<>>, searchTerms |-> <<>>,
                         retrievalStrategy |-> "no_terms" ]
        /\ issued[c] = <<>>
        /\ received[c] = <<>>

C1_Witness ==
    /\ pc[1] = "done"
    /\ query[1] = QueryStopWords
    /\ result[1].retrievalStrategy = "no_terms"

\* C2: the strategies run in the order exact phrase, multi-term, single-term;
\* the first one that returns a record ends the cascade: the result carries its
\* tag and no backend query of a later strategy is issued.
C2_FirstHitStops ==
    \A c \in Clients :
      \A k \in 1..Len(strategyOut[c]) :
        /\ strategyOut[c][k].strategy = StrategyOrder[k]
        /\ strategyOut[c][k].products # <<>> =>
             /\ k = Len(strategyOut[c])
             /\ pc[c] = "done"
             /\ result[c].retrievalStrategy = StrategyOrder[k]
             /\ \A i \in 1..Len(issued[c]) : StrategyRank(issued[c][i].strategy) <= k
             /\ k = 1 => Len(issued[c]) = 1

C2_Witness ==
    /\ pc[1] = "done"
    /\ Len(TermsOf(1)) >= 2
    /\ Len(strategyOut[1]) = 1
    /\ strategyOut[1][1].products # <<>>
    /\ result[1].retrievalStrategy = "exact_phrase"
    /\ Len(issued[1]) = 1

\* C3: a call never ends in a rejected promise; it resolves to a result with one
\* of the four tags, and when the query has a search term and every backend
\* query failed, the result is empty with tag 'single_term_fallback'.
C3_NeverThrows ==
    \A c \in Clients :
      /\ pc[c] # "rejected"
      /\ pc[c] = "done" =>
           /\ result[c].retrievalStrategy \in
                { "no_terms", "exact_phrase", "multi_term", "single_term_fallback" }
           /\ (TermsOf(c) # <<>> /\ \A i \in 1..Len(received[c]) : Failed(received[c][i])) =>
                /\ result[c].products = <<>>
                /\ result[c].retrievalStrategy = "single_term_fallback"

C3_Witness ==
    /\ pc[1] = "done"
    /\ Len(received[1]) >= 4
    /\ \A i \in 1..Len(received[1]) : Failed(received[1][i])
    /\ received[1][1].kind = "throw"
    /\ received[1][2].kind = "throw"
    /\ received[1][3].kind = "error"
    /\ result[1].retrievalStrategy = "single_term_fallback"

\* C4: the returned list never has more than maxResults records, and on the
\* single-term path it is the first maxResults records of the de-duplicated list.
C4_AtMostMaxResults ==
    \A c \in Clients :
      pc[c] = "done" =>
        /\ Len(result[c].products) <= config.maxResults
        /\ result[c].retrievalStrategy = "single_term_fallback" =>
             LET out == strategyOut[c][Len(strategyOut[c])].products
             IN  /\ Len(result[c].products) = Min(config.maxResults, Len(out))
                 /\ \A i \in 1..Len(result[c].products) : result[c].products[i] = out[i]

C4_Witness ==
    /\ pc[1] = "done"
    /\ result[1].retrievalStrategy = "single_term_fallback"
    /\ config.maxResults = 1
    /\ Len(strategyOut[1][3].products) = 2
    /\ Len(result[1].products) = 1

\* C5: in every strategy a failed backend query makes the strategy return no
\* record, and every failure, error value or exception, is logged.
C5_FailureEmptiesAndLogs ==
    \A c \in Clients :
      /\ \A k \in 1..Len(strategyOut[c]) :
           (\E o \in OutcomesFor(c, strategyOut[c][k].strategy) : Failed(o)) =>
             strategyOut[c][k].products = <<>>
      /\ Len(consoleErrors[c]) =
           Cardinality({ i \in 1..Len(received[c]) : Failed(received[c][i]) })

\* C6: with calls interleaved at their await points, every call resolves to what
\* it would resolve to alone on the outcomes it received, and the configuration
\* stays what the constructor made it.
C6_CallsIndependent ==
    /\ config = mergeConfig(DEFAULT_CONFIG, [ maxResults |-> 10 ])
    /\ \A c \in Clients :
         pc[c] = "done" => result[c] = retrieveAlone(TermsOf(c), config, received[c])

C6_Witness ==
    /\ pc[1] = "done"
    /\ query[1] = QueryTwo
    /\ result[1].retrievalStrategy = "single_term_fallback"
    /\ result[1].products = << prodPump >>
    /\ received[1][3].kind = "error"
    /\ pc[2] = "awaitSingleTerm"
    /\ query[2] = QueryOne
    /\ issued[2][3].expression # issued[1][3].expression

\* C7: the searchTerms of every result are the preprocessor's search terms.
C7_ResultCarriesTerms ==
    \A c \in Clients :
      pc[c] = "done" => result[c].searchTerms = TermsOf(c)

C7_Witness ==
    /\ pc[1] = "done"
    /\ result[1].retrievalStrategy = "single_term_fallback"
    /\ Len(result[1].searchTerms) = 4
    /\ \E i \in 1..Len(received[1]) : Failed(received[1][i])

\* C8: the relevance score of every candidate is the number of distinct search
\* terms found in its lower-cased name, description and category.
C8_ScoreCountsDistinctTerms ==
    \A c \in Clients :
      \A i \in 1..Len(scoredProducts[c]) :
        scoredProducts[c][i].relevanceScore =
          Cardinality({ t \in Range(searchTerms[c]) :
                          includes(productText(scoredProducts[c][i]), t) })

\* out is `data` reordered by the permutation p, higher scores first and rows
\* of equal score in the order of `data`.
IsStableRanking(out, data, scores, p) ==
    /\ \A i \in 1..Len(data) : out[i] = data[p[i]]
    /\ \A i, j \in 1..Len(data) :
         i < j => \/ scores[p[i]] > scores[p[j]]
                  \/ scores[p[i]] = scores[p[j]] /\ p[i] < p[j]

\* C9: what the multi-term strategy returns is the backend's rows, stably sorted
\* by descending relevance score, each with the five columns only; the result
\* tagged 'multi_term' is its first maxResults rows.
C9_StableRanking ==
    \A c \in Clients :
      (Len(strategyOut[c]) >= 2 /\ received[c][2].kind = "ok") =>
        LET data   == received[c][2].data
            out    == strategyOut[c][2].products
            scores == [ i \in 1..Len(data) |-> scoredProducts[c][i].relevanceScore ]
        IN  /\ Len(out) = Len(data)
            /\ \E p \in [1..Len(data) -> 1..Len(data)] : IsStableRanking(out, data, scores, p)
            /\ \A i \in 1..Len(out) : DOMAIN out[i] = ProductFields
            /\ (pc[c] = "done" /\ result[c].retrievalStrategy = "multi_term") =>
                 result[c].products = SubSeq(out, 1, Min(config.maxResults, Len(out)))

C9_Witness ==
    /\ pc[1] = "done"
    /\ result[1].retrievalStrategy = "multi_term"
    /\ received[1][2].data = << prodValve, prodPump, prodPumpAlt >>
    /\ scoredProducts[1][1].relevanceScore < scoredProducts[1][2].relevanceScore
    /\ scoredProducts[1][2].relevanceScore = scoredProducts[1][3].relevanceScore
    /\ strategyOut[1][2].products = << prodPump, prodPumpAlt, prodValve >>

\* The rows the per-term queries of call c answered with, in term order.
concatData(outcomes) ==
    LET F[i \in 0..Len(outcomes)] ==
          IF i = 0 THEN <<>>
          ELSE F[i - 1] \o (IF outcomes[i].kind = "ok" THEN outcomes[i].data ELSE <<>>)
    IN  F[Len(outcomes)]

\* The positions of `rows` that hold the first row of their name.
FirstOccurrences(rows) ==
    { i \in 1..Len(rows) : \A j \in 1..(i - 1) : rows[j].name # rows[i].name }

----------------------------------------------------------------------------
(* Properties of the context formatter *)

\* How many times `part` occurs in `text`.
Occurrences(text, part) ==
    Cardinality({ i \in 0..(Len(text) - Len(part)) :
                    SubSeq(text, i + 1, i + Len(part)) = part })

\* The entries of the records `ps`, numbered from 1 in the order of `ps`.
EntriesOf(ps) == [ i \in 1..Len(ps) |-> entryText(i - 1, ps[i]) ]

\* C11: formatting has three outcomes.  An empty list gives the empty string.  A
\* list whose header and entries together fit in contextWindowSize gives the
\* header, every entry in input order and the closing delimiter last, with no
\* omission trailer.  A list that does not fit gives a block with exactly one
\* omission trailer, after the entries rendered and before the closing
\* delimiter, whose count is the number of records not rendered.
C11_FormatOutcomes ==
    formatCall.state = "returned" =>
      LET ps      == formatCall.products
          out     == formatCall.context
          entries == EntriesOf(ps)
          total   == Len(contextHeader) + Len(join(entries, <<>>))
      IN  IF Len(ps) = 0 THEN out = <<>>
          ELSE IF total <= config.contextWindowSize
            THEN /\ out = contextHeader \o join(entries, <<>>) \o contextClosing
                 /\ Occurrences(out, trailerClose) = 0
            ELSE /\ Occurrences(out, trailerClose) = 1
                 /\ \E k \in 0..(Len(ps) - 1) :
                      out = contextHeader \o join(SubSeq(entries, 1, k), <<>>)
                              \o trailerOpen \o numberToString(Len(ps) - k) \o trailerClose
                              \o contextClosing

C11_Witness ==
    /\ formatCall.state = "returned"
    /\ formatCall.products = << prodValve, prodPump, prodPumpAlt >>
    /\ config.contextWindowSize = 120
    /\ formatCall.rendered = 1
    /\ includes(formatCall.context, trailerOpen \o <<"2">> \o trailerClose)

\* C12: whatever the record list and contextWindowSize, the block returned,
\* header, entries, trailer and closing delimiter included, is at most
\* contextWindowSize characters long.
C12_WithinWindow ==
    formatCall.state = "returned" =>
      Len(formatCall.context) <= config.contextWindowSize

----------------------------------------------------------------------------
(* Properties of the preprocessor *)

\* The keyword rules of the intent, in the order of their precedence.
IntentRules ==
    << [ intent |-> "comparison",
         words  |-> { <<"c","o","m","p","a","r","e">>, <<"v","s">>,
                      <<"v","e","r","s","u","s">> } ],
       [ intent |-> "pricing",
         words  |-> { <<"p","r","i","c","e">>, <<"c","o","s","t">>, <<"$">> } ],
       [ intent |-> "availability",
         words  |-> { <<"a","v","a","i","l","a","b","l","e">>, <<"s","t","o","c","k">> } ] >>

\* The intent the first keyword rule matching `text` gives, or that of the
\* number of terms when none matches.
FirstMatchingIntent(text, terms) ==
    LET matching == { k \in 1..Len(IntentRules) :
                        \E w \in IntentRules[k].words : includes(text, w) }
    IN  IF matching # {}
          THEN IntentRules[CHOOSE k \in matching : \A j \in matching : k <= j].intent
        ELSE IF Len(terms) >= 1 THEN "product_search"
        ELSE "general"

\* C13: the intent is that of the first rule matching the lower-cased trimmed
\* query: comparison, then pricing, then availability, then product_search when
\* a search term survives, then general.  'compare price of X and Y' is a
\* comparison, and the empty query is general with no search term.
C13_IntentByFirstRule ==
    preprocessCall.state = "returned" =>
      LET q   == preprocessCall.query
          out == preprocessCall.out
      IN  /\ out.intent = FirstMatchingIntent(trim(toLowerCase(q)), out.searchTerms)
          /\ q = QueryCompare => out.intent = "comparison"
          /\ q = QueryEmpty => (out.intent = "general" /\ out.searchTerms = <<>>)

\* Letters and digits, nothing else.
AlphanumericChars == Range(UpperChars) \cup Range(LowerChars) \cup DigitChars

\* C14: every search term is lower-cased, made of letters and digits only, at
\* least minTermLength long and not a stop word, and there are at most maxTerms
\* search terms.
C14_TermsWellFormed ==
    preprocessCall.state = "returned" =>
      LET terms == preprocessCall.out.searchTerms
      IN  /\ Len(terms) <= config.maxTerms
          /\ \A i \in 1..Len(terms) :
               /\ terms[i] = toLowerCase(terms[i])
               /\ Range(terms[i]) \subseteq AlphanumericChars
               /\ Len(terms[i]) >= config.minTermLength
               /\ terms[i] \notin stopWords

\* C17: the search terms are the first maxTerms of the tokens that pass the
\* length filter and the stop-word filter, in the order of the query and with
\* repeated tokens kept: the cut comes after the filters, and the surviving
\* tokens beyond maxTerms are dropped.
C17_CutAfterFilters ==
    preprocessCall.state = "returned" =>
      LET tokens == splitWhitespace(replaceNonWord(trim(toLowerCase(preprocessCall.query))))
          kept   == { i \in 1..Len(tokens) :
                        Len(tokens[i]) >= config.minTermLength /\ tokens[i] \notin stopWords }
          nth(k) == CHOOSE i \in kept : Cardinality({ j \in kept : j <= i }) = k
          terms  == preprocessCall.out.searchTerms
      IN  /\ Len(terms) = Min(config.maxTerms, Cardinality(kept))
          /\ \A k \in 1..Len(terms) : terms[k] = tokens[nth(k)]

C17_Witness ==
    /\ preprocessCall.state = "returned"
    /\ preprocessCall.query = QueryLeadingStops
    /\ config.minTermLength = 2
    /\ config.maxTerms = 2
    /\ preprocessCall.out.searchTerms = << <<"p","u">>, <<"p","u">> >>

----------------------------------------------------------------------------
(* Properties of the analytics and of the cascade's backend calls *)

\* C15: the analytics of a result are its number of records, its strategy tag,
\* its number of search terms and hasResults, true exactly when there is a
\* record; the result is left as the retrieval returned it.  When the phrase
\* strategy finds nothing and the multi-term strategy finds one record, they
\* are productCount 1, strategy 'multi_term' and hasResults TRUE (the backend
\* answering the multi-term query within the limit it was given).
C15_AnalyticsOfResult ==
    \A c \in Clients :
      analytics[c] # noAnalytics =>
        /\ analytics[c].productCount = Len(result[c].products)
        /\ analytics[c].strategy = result[c].retrievalStrategy
        /\ analytics[c].searchTermCount = Len(result[c].searchTerms)
        /\ analytics[c].hasResults = (analytics[c].productCount > 0)
        /\ DOMAIN analytics[c] = { "productCount", "strategy", "searchTermCount", "hasResults" }
        /\ result[c] = retrieveAlone(TermsOf(c), config, received[c])
        /\ ( /\ Len(strategyOut[c]) = 2
             /\ strategyOut[c][1].products = <<>>
             /\ Len(strategyOut[c][2].products) = 1
             /\ Len(received[c][2].data) <= issued[c][2].limit ) =>
               /\ analytics[c].hasResults = TRUE
               /\ analytics[c].productCount = 1
               /\ analytics[c].strategy = "multi_term"

C15_Witness ==
    /\ analytics[1] # noAnalytics
    /\ Len(received[1]) = 2
    /\ received[1][1] = [ kind |-> "ok", data |-> <<>> ]
    /\ received[1][2] = [ kind |-> "ok", data |-> << prodValve >> ]
    /\ result[1].products = << prodValve >>
    /\ Len(result[1].searchTerms) = 2
    /\ analytics[1].productCount = 1

\* The states in which call c waits for a backend query to settle.
Awaiting(c) == pc[c] \in { "awaitExactPhrase", "awaitMultiTerm", "awaitSingleTerm" }

\* C16: the backend queries of one call are issued one at a time, each after the
\* one before it has settled, in this order: one exact-phrase query on the raw
\* query with limit maxResults; then, only if it gave no record, one OR query
\* over all search terms with limit 2 x maxResults; then, only if that gave no
\* record, one query with limit 5 per term among the first min(3, number of
\* terms), in term order, all of them unless one throws; so at most 5 queries.
C16_SequentialCalls ==
    \A c \in Clients :
      LET n     == Len(issued[c])
          terms == TermsOf(c)
          k     == Min(3, Len(terms))
      IN  /\ n <= 5
          /\ n <= 2 + k
          /\ Len(received[c]) = (IF Awaiting(c) THEN n - 1 ELSE n)
          /\ n >= 1 =>
               /\ issued[c][1].strategy = "exact_phrase"
               /\ issued[c][1].expression = <<"\"">> \o query[c] \o <<"\"">>
               /\ issued[c][1].limit = config.maxResults
          /\ n >= 2 =>
               /\ strategyOut[c][1].products = <<>>
               /\ issued[c][2].strategy = "multi_term"
               /\ issued[c][2].expression = join(terms, <<" ", "|", " ">>)
               /\ issued[c][2].limit = 2 * config.maxResults
          /\ \A i \in 3..n :
               /\ strategyOut[c][2].products = <<>>
               /\ issued[c][i].strategy = "single_term_fallback"
               /\ issued[c][i].expression = terms[i - 2]
               /\ issued[c][i].limit = 5
          /\ ( /\ pc[c] = "done"
               /\ Len(strategyOut[c]) = 3
               /\ \A i \in 3..Len(received[c]) : received[c][i].kind # "throw" ) =>
                 n = 2 + k

C16_Witness ==
    /\ pc[1] = "done"
    /\ Len(TermsOf(1)) = 4
    /\ Len(issued[1]) = 5
    /\ Len(received[1]) = 5
    /\ issued[1][5].expression = TermsOf(1)[3]
    /\ result[1].retrievalStrategy = "single_term_fallback"

\* Strategy number k of call c gave no record: its backend query failed or
\* answered with no row, and the strategy method returned the empty list.
YieldedNothing(c, k) ==
    /\ strategyOut[c][k].products = <<>>
    /\ Failed(received[c][k]) \/ received[c][k].data = <<>>

\* C18: with maxResults >= 1, a result tagged 'exact_phrase' or 'multi_term' has
\* at least one record; an empty result is tagged 'no_terms' or
\* 'single_term_fallback'; and the tag 'single_term_fallback' is given only
\* when the exact-phrase and the multi-term strategies both gave no record.
C18_TagTellsProgress ==
    \A c \in Clients :
      (pc[c] = "done" /\ config.maxResults >= 1) =>
        /\ result[c].retrievalStrategy \in { "exact_phrase", "multi_term" } =>
             result[c].products # <<>>
        /\ result[c].products = <<>> =>
             result[c].retrievalStrategy \in { "no_terms", "single_term_fallback" }
        /\ result[c].retrievalStrategy = "single_term_fallback" =>
             /\ Len(strategyOut[c]) = 3
             /\ YieldedNothing(c, 1)
             /\ YieldedNothing(c, 2)

C18_Witness ==
    /\ pc[1] = "done"
    /\ config.maxResults = 1
    /\ result[1].retrievalStrategy = "single_term_fallback"
    /\ result[1].products = <<>>
    /\ received[1][1] = [ kind |-> "ok", data |-> <<>> ]
    /\ received[1][2] = [ kind |-> "error", data |-> <<>> ]
    /\ Len(received[1]) = 3

====
